---- MODULE Spec2Model ----
(***************************************************************************)
(* Model of the button widget's two option channels:                       *)
(*   options.go        newOptions, the Option setters, options.validate    *)
(*   write_options.go  newWriteOptions, WriteCellOpts, setDefaultFgColor   *)
(* Spec      is the widget-option protocol (defaults, apply, validate).    *)
(* SpecWrite is the write-option protocol (apply, default fg colour).      *)
(***************************************************************************)
EXTENDS Integers, Sequences, FiniteSets, TLC

VARIABLES textWidth, opts, applied, pc, err, nvalidate,
          wo, wApplied, wpc, fgArg

vars == <<textWidth, opts, applied, pc, err, nvalidate, wo, wApplied, wpc, fgArg>>

widgetVars == <<textWidth, opts, applied, pc, err, nvalidate>>

writeVars == <<wo, wApplied, wpc, fgArg>>

(* ------------------------------ bounds --------------------------------- *)

MaxTextWidth == 4

MaxOpts == 3

MaxNeg == 1

MaxCells == 2

MaxWriteOpts == 2

MaxCellOpts == 2

(* ----------------------------- constants ------------------------------- *)

\* the cell package's colour values
ColorDefault == 0

ColorBlack == 1

ColorCyan == 7

DefaultFillColor == ColorCyan

DefaultTextColor == ColorBlack

\* cell.Color(250)
DefaultShadowColor == 250

DefaultHeight == 2

\* keyboard.KeyEnter, a non-printable key, distinct from the zero Key
KeyEnter == "KeyEnter"

KeyEsc == "KeyEsc"

\* the value of a keyboard.Key field that a struct literal leaves out
ZeroKey == "Key(0)"

DefaultKey == KeyEnter

Colors == {DefaultFillColor, DefaultTextColor}

Keys == {KeyEnter, KeyEsc}

Cells == (0 - MaxNeg)..MaxCells

TextWidths == 0..MaxTextWidth

(* --------------------------- options.go -------------------------------- *)

nil == [format |-> "nil", args |-> <<>>]

Errorf(format, a, b) == [format |-> format, args |-> <<a, b>>]

\* validate with the comparison off by one
validateOffByOne(o) ==
  IF o.height <= 1
    THEN Errorf("invalid height %d, must be %d <= height", o.height, 1)
    ELSE IF o.width <= 1
      THEN Errorf("invalid width %d, must be %d <= width", o.width, 1)
      ELSE nil

validate(o) ==
  IF o.height < 1
    THEN Errorf("invalid height %d, must be %d <= height", o.height, 1)
    ELSE IF o.width < 1
      THEN Errorf("invalid width %d, must be %d <= width", o.width, 1)
      ELSE nil

\* newOptions padding the text on one side only
newOptionsOnePad(w) ==
  [fillColor   |-> DefaultFillColor,
   textColor   |-> DefaultTextColor,
   shadowColor |-> DefaultShadowColor,
   height      |-> DefaultHeight,
   width       |-> w + 1,
   key         |-> ZeroKey]

newOptions(w) ==
  [fillColor   |-> DefaultFillColor,
   textColor   |-> DefaultTextColor,
   shadowColor |-> DefaultShadowColor,
   height      |-> DefaultHeight,
   width       |-> w + 2,
   key         |-> ZeroKey]

FillColor(c, o) == [o EXCEPT !.fillColor = c]

TextColor(c, o) == [o EXCEPT !.textColor = c]

ShadowColor(c, o) == [o EXCEPT !.shadowColor = c]

Height(cells, o) == [o EXCEPT !.height = cells]

\* Width with a line copied from Height left in
WidthAlsoHeight(cells, o) == [o EXCEPT !.width = cells, !.height = cells]

Width(cells, o) == [o EXCEPT !.width = cells]

Key(k, o) == [o EXCEPT !.key = k]

\* An Option value: the constructor that made it and the argument it closed over.
Options ==
  [name : {"FillColor", "TextColor", "ShadowColor"}, arg : Colors]
    \cup [name : {"Height", "Width"}, arg : Cells]
    \cup [name : {"Key"}, arg : Keys]

set(op, o) ==
  CASE op.name = "FillColor"   -> FillColor(op.arg, o)
    [] op.name = "TextColor"   -> TextColor(op.arg, o)
    [] op.name = "ShadowColor" -> ShadowColor(op.arg, o)
    [] op.name = "Height"      -> Height(op.arg, o)
    [] op.name = "Width"       -> Width(op.arg, o)
    [] op.name = "Key"         -> Key(op.arg, o)

(* ------------------------- widget-option protocol ---------------------- *)

Init ==
  /\ textWidth \in TextWidths
  /\ opts = newOptions(textWidth)
  /\ applied = <<>>
  /\ pc = "apply"
  /\ err = nil
  /\ nvalidate = 0
  /\ wo = [cellOpts |-> <<>>]
  /\ wApplied = <<>>
  /\ wpc = "idle"
  /\ fgArg = ColorDefault

\* an application step that validates the record it has just changed
ApplyOptionValidating ==
  /\ pc = "apply"
  /\ Len(applied) < MaxOpts
  /\ \E op \in Options :
       /\ opts' = set(op, opts)
       /\ applied' = Append(applied, op)
       /\ err' = IF err # nil THEN err ELSE validate(set(op, opts))
  /\ UNCHANGED <<textWidth, pc, nvalidate>>
  /\ UNCHANGED writeVars

ApplyOption ==
  /\ pc = "apply"
  /\ Len(applied) < MaxOpts
  /\ \E op \in Options :
       /\ opts' = set(op, opts)
       /\ applied' = Append(applied, op)
  /\ UNCHANGED <<textWidth, pc, err, nvalidate>>
  /\ UNCHANGED writeVars

Validate ==
  /\ pc = "apply"
  /\ err' = validate(opts)
  /\ nvalidate' = nvalidate + 1
  /\ pc' = "done"
  /\ UNCHANGED <<textWidth, opts, applied>>
  /\ UNCHANGED writeVars

Next ==
  \/ ApplyOption
  \/ Validate

Spec == Init /\ [][Next]_vars

(* ------------------------- write_options.go ---------------------------- *)

\* cell.FgColor(c) and cell.BgColor(c), the styling directives of a cell
FgColor(c) == [kind |-> "FgColor", color |-> c]

BgColor(c) == [kind |-> "BgColor", color |-> c]

CellOptions == {FgColor(c) : c \in Colors} \cup {BgColor(c) : c \in Colors}

CellOptLists == UNION {[1..n -> CellOptions] : n \in 0..MaxCellOpts}

\* setDefaultFgColor putting the default behind the caller's directives
setDefaultFgColorAppend(c, w) == [w EXCEPT !.cellOpts = @ \o <<FgColor(c)>>]

\* setDefaultFgColor dropping the caller's directives
setDefaultFgColorOnly(c, w) == [w EXCEPT !.cellOpts = <<FgColor(c)>>]

setDefaultFgColor(c, w) == [w EXCEPT !.cellOpts = <<FgColor(c)>> \o @]

\* WriteCellOpts adding to the list instead of replacing it
WriteCellOptsAppend(list, w) == [w EXCEPT !.cellOpts = @ \o list]

WriteCellOpts(list, w) == [w EXCEPT !.cellOpts = list]

\* The foreground colour a cell ends with when the directives are applied in
\* sequence to a cell that starts with colour fg.
RECURSIVE ApplyCellOpts(_, _)
ApplyCellOpts(list, fg) ==
  IF list = <<>>
    THEN fg
    ELSE ApplyCellOpts(Tail(list),
                       IF Head(list).kind = "FgColor" THEN Head(list).color ELSE fg)

(* ------------------------- write-option protocol ----------------------- *)

InitWrite ==
  /\ textWidth = 0
  /\ opts = newOptions(0)
  /\ applied = <<>>
  /\ pc = "idle"
  /\ err = nil
  /\ nvalidate = 0
  /\ wo = [cellOpts |-> <<>>]
  /\ wApplied = <<>>
  /\ wpc = "apply"
  /\ fgArg = ColorDefault

\* one iteration of newWriteOptions' loop
ApplyWriteOption ==
  /\ wpc = "apply"
  /\ Len(wApplied) < MaxWriteOpts
  /\ \E list \in CellOptLists :
       /\ wo' = WriteCellOpts(list, wo)
       /\ wApplied' = Append(wApplied, list)
  /\ UNCHANGED <<wpc, fgArg>>
  /\ UNCHANGED widgetVars

\* newWriteOptions returns wo
ReturnWriteOptions ==
  /\ wpc = "apply"
  /\ wpc' = "returned"
  /\ UNCHANGED <<wo, wApplied, fgArg>>
  /\ UNCHANGED widgetVars

\* the widget calls setDefaultFgColor with its text colour
SetDefaultFgColor ==
  /\ wpc = "returned"
  /\ \E c \in Colors :
       /\ wo' = setDefaultFgColor(c, wo)
       /\ fgArg' = c
  /\ wpc' = "final"
  /\ UNCHANGED wApplied
  /\ UNCHANGED widgetVars

NextWrite ==
  \/ ApplyWriteOption
  \/ ReturnWriteOptions
  \/ SetDefaultFgColor

SpecWrite == InitWrite /\ [][NextWrite]_vars

(* ------------------------------ helpers -------------------------------- *)

Fields == {"fillColor", "textColor", "shadowColor", "height", "width", "key"}

\* the field of the record an option constructor is documented to set
FieldOf(name) ==
  CASE name = "FillColor"   -> "fillColor"
    [] name = "TextColor"   -> "textColor"
    [] name = "ShadowColor" -> "shadowColor"
    [] name = "Height"      -> "height"
    [] name = "Width"       -> "width"
    [] name = "Key"         -> "key"

\* the documented default of a field, for a label of width w
DefaultOf(f, w) ==
  CASE f = "fillColor"   -> DefaultFillColor
    [] f = "textColor"   -> DefaultTextColor
    [] f = "shadowColor" -> DefaultShadowColor
    [] f = "height"      -> DefaultHeight
    [] f = "width"       -> w + 2
    [] f = "key"         -> DefaultKey

Targets(f) == {i \in 1..Len(applied) : FieldOf(applied[i].name) = f}

Max(S) == CHOOSE i \in S : \A j \in S : j <= i

\* the value last-write-wins gives field f, with d where no option targets it
LastWrite(f, d) == IF Targets(f) = {} THEN d ELSE applied[Max(Targets(f))].arg

RECURSIVE Replay(_, _)
Replay(seq, o) == IF seq = <<>> THEN o ELSE Replay(Tail(seq), set(Head(seq), o))

HasFg(list) == \E i \in 1..Len(list) : list[i].kind = "FgColor"

LastFg(list) ==
  list[CHOOSE i \in 1..Len(list) :
         /\ list[i].kind = "FgColor"
         /\ \A j \in (i + 1)..Len(list) : list[j].kind # "FgColor"].color

\* the list newWriteOptions was asked to end with
CallerList == IF wApplied = <<>> THEN <<>> ELSE wApplied[Len(wApplied)]

\* a is b with at most entries inserted: same entries, same order
RECURSIVE IsSubSeq(_, _)
IsSubSeq(a, b) ==
  IF a = <<>> THEN TRUE
  ELSE IF b = <<>> THEN FALSE
  ELSE IF Head(a) = Head(b) THEN IsSubSeq(Tail(a), Tail(b))
  ELSE IsSubSeq(a, Tail(b))

(* ------------------------------- claims -------------------------------- *)

\* C1: validation fails exactly when the final height or the final width is
\* below 1, so a validated record has height >= 1 and width >= 1; with
\* Height(h) as the only option it fails for h < 1 with the height error
\* carrying h and the minimum 1, and succeeds with height = h for h >= 1.
C1_ValidateIffBelowOne ==
  pc = "done" =>
    /\ (err # nil) <=> (opts.height < 1 \/ opts.width < 1)
    /\ err = nil => (opts.height >= 1 /\ opts.width >= 1)
    /\ (Len(applied) = 1 /\ applied[1].name = "Height") =>
         /\ applied[1].arg < 1 =>
              err = [format |-> "invalid height %d, must be %d <= height",
                     args |-> <<applied[1].arg, 1>>]
         /\ applied[1].arg >= 1 => (err = nil /\ opts.height = applied[1].arg)

C1_Witness ==
  /\ pc = "done"
  /\ applied = <<[name |-> "Height", arg |-> 0]>>
  /\ err = [format |-> "invalid height %d, must be %d <= height", args |-> <<0, 1>>]

\* C3: with no Key option supplied, the key of the record is Enter when
\* validation has run.
C3_KeyDefaultsToEnter ==
  (pc = "done" /\ Targets("key") = {}) => opts.key = KeyEnter

\* C6: with an empty option list the record is the default record, width
\* L + 2, height 2, fill cyan, text black, shadow 250, and it passes validation.
C6_EmptyListIsDefault ==
  applied = <<>> =>
    /\ opts.width = textWidth + 2
    /\ opts.height = 2
    /\ opts.fillColor = ColorCyan
    /\ opts.textColor = ColorBlack
    /\ opts.shadowColor = 250
    /\ pc = "done" => err = nil

C6_Witness ==
  /\ pc = "done"
  /\ applied = <<>>
  /\ textWidth = MaxTextWidth
  /\ opts.width = MaxTextWidth + 2
  /\ err = nil

\* C7: after the options are applied, every field holds the argument of the
\* last option that targets it, or its default when no option targets it.
C7_LastWriteWins ==
  pc = "done" => \A f \in Fields : opts[f] = LastWrite(f, DefaultOf(f, textWidth))

\* Last-write-wins with the value newOptions gives a field as its default.
LastWriteWinsOverNewOptions ==
  \A f \in Fields : opts[f] = LastWrite(f, newOptions(textWidth)[f])

\* C9: no application step reports an error, validation runs once and after
\* the last option, and a record whose final state is valid passes whatever
\* its intermediate states were.
C9_ValidateOnceAtEnd ==
  /\ pc = "apply" => (err = nil /\ nvalidate = 0)
  /\ pc = "done" =>
       /\ nvalidate = 1
       /\ (opts.height >= 1 /\ opts.width >= 1) => err = nil

C9_Witness ==
  /\ pc = "done"
  /\ applied = <<[name |-> "Width", arg |-> 0 - 1], [name |-> "Height", arg |-> 0],
                 [name |-> "Width", arg |-> 2]>>
       \/ applied = <<[name |-> "Height", arg |-> 0], [name |-> "Height", arg |-> 2]>>
  /\ nvalidate = 1
  /\ err = nil

\* the step applies one option: only the field it names changes
C10_OptionFrame ==
  (applied' # applied) =>
    \A f \in Fields \ {FieldOf(applied'[Len(applied')].name)} : opts'[f] = opts[f]

\* the step validates: no field changes
C10_ValidateFrame == (pc' # pc) => opts' = opts

\* the last two options applied target different fields: the record is the
\* one the other order gives
C10_Commute ==
  LET n == Len(applied) IN
    (n >= 2 /\ FieldOf(applied[n].name) # FieldOf(applied[n - 1].name)) =>
      opts = Replay(SubSeq(applied, 1, n - 2) \o <<applied[n], applied[n - 1]>>,
                    newOptions(textWidth))

\* C10: an option changes the one field it names and no other, two options
\* on different fields give the same record in either order, and validate
\* changes no field.
C10_OneFieldOnly ==
  /\ [][C10_OptionFrame /\ C10_ValidateFrame]_vars
  /\ []C10_Commute

C10_Witness ==
  /\ pc = "done"
  /\ applied = <<[name |-> "Width", arg |-> 0], [name |-> "Height", arg |-> 1]>>
  /\ opts.width = 0
  /\ err # nil

\* the step is the widget's call of setDefaultFgColor
FinalizeStep == wpc = "returned" /\ wpc' = "final"

\* C2: when the styling list already holds a foreground-colour directive,
\* setDefaultFgColor leaves the list as it is.
C2_FinalizeKeepsListWithFg ==
  [][(FinalizeStep /\ HasFg(wo.cellOpts)) => wo'.cellOpts = wo.cellOpts]_vars

\* C4: on a list with no foreground-colour directive setDefaultFgColor gives
\* FgColor(c) followed by the list as it was; on every list it keeps each
\* entry, in order, and adds at most one.
C4_FinalizePrepends ==
  [][FinalizeStep =>
       /\ ~HasFg(wo.cellOpts) => wo'.cellOpts = <<FgColor(fgArg')>> \o wo.cellOpts
       /\ Len(wo'.cellOpts) <= Len(wo.cellOpts) + 1
       /\ Len(wo'.cellOpts) >= Len(wo.cellOpts)
       /\ IsSubSeq(wo.cellOpts, wo'.cellOpts)]_vars

C4_Witness ==
  /\ wpc = "final"
  /\ CallerList = <<BgColor(DefaultFillColor), BgColor(DefaultTextColor)>>
  /\ wo.cellOpts = <<FgColor(fgArg)>> \o CallerList

\* C5: after newWriteOptions and setDefaultFgColor the foreground colour the
\* directives give a cell is the caller's last foreground colour when the
\* caller gave one, the widget's text colour otherwise, and never the
\* uncoloured default.
C5_EffectiveFg ==
  wpc = "final" =>
    /\ ApplyCellOpts(wo.cellOpts, ColorDefault) =
         IF HasFg(CallerList) THEN LastFg(CallerList) ELSE fgArg
    /\ ApplyCellOpts(wo.cellOpts, ColorDefault) # ColorDefault

C5_Witness ==
  /\ wpc = "final"
  /\ fgArg = DefaultTextColor
  /\ CallerList = <<FgColor(DefaultFillColor), BgColor(DefaultTextColor)>>
  /\ ApplyCellOpts(wo.cellOpts, ColorDefault) = DefaultFillColor

\* C8: newWriteOptions returns the argument list of the last WriteCellOpts
\* it was given, and the empty list when it was given none.
C8_LastWriteCellOpts ==
  wpc \in {"apply", "returned"} => wo.cellOpts = CallerList

C8_Witness ==
  /\ wpc = "returned"
  /\ Len(wApplied) = 2
  /\ wApplied[1] = <<BgColor(DefaultFillColor)>>
  /\ wApplied[2] = <<FgColor(DefaultTextColor)>>
  /\ wo.cellOpts = <<FgColor(DefaultTextColor)>>

====
